---- MODULE Spec2Model ----
(***************************************************************************)
(* The agent loop of MicroAgentService.createAgentChat                     *)
(* (src/src/agent/config/openai-config.ts) with the tools of               *)
(* src/src/agent/agent/agent-config.ts.                                    *)
(*                                                                         *)
(* One invocation is modelled: the async generator agentLoopGenerator, the *)
(* Completion Gateway that answers its requests with a stream of chunks,   *)
(* and the consumer that pulls StepEvents and may cancel.  SpecTwo adds a   *)
(* second invocation.  SpecBatch and SpecSpeed are the batch test and the  *)
(* single tests of the benchmark composable                                *)
(* (src/src/composables/useTokenSpeedTest.ts).                             *)
(*                                                                         *)
(* Text is modelled as follows.  A JavaScript string that the code parses  *)
(* or concatenates piecewise (content, tool-call arguments) is a sequence  *)
(* of characters, each character a one-token TLA+ string, so that string   *)
(* concatenation is \o on sequences.  Tool names, ids and error messages   *)
(* are TLA+ strings.  The Chinese text of a message of the code is written  *)
(* by its code points (U+672A for the first character of the tool-not-     *)
(* found message), with the source text in the comment next to it.         *)
(***************************************************************************)
EXTENDS Integers, Sequences, FiniteSets, TLC

VARIABLES
    mode,             \* options.mode ("" when absent)
    optMaxSteps,      \* options.maxSteps (0 when absent or 0)
    maxSteps,         \* const maxSteps of createAgentChat
    messages,         \* the history
    step,             \* let step
    isCompleted,      \* let isCompleted
    pc,               \* where the generator is
    assistantContent, \* let assistantContent of the current iteration
    toolCallMap,      \* const toolCallMap of the current iteration (insertion order)
    toolCalls,        \* assistantMessage.tool_calls of the current iteration
    tcIdx,            \* position of the for loop over tool calls
    parameters,       \* const parameters of the current tool call
    chunk,            \* the chunk being processed
    finishSeen,       \* the stream of the current iteration gave a finish_reason
    gw,               \* the Gateway: the reply being streamed and what was sent of it
    requests,         \* number of createStreamChatCompletion calls
    sent,             \* the messages given to the last createStreamChatCompletion call
    executed,         \* tool.execute calls started, in order
    events,           \* the StepEvents the consumer has received
    cancelRequested,  \* the consumer has cancelled
    outcome,          \* how the generator ended
    other,            \* a second invocation of createAgentChat, when there is one
    \* the benchmark composable useTokenSpeedTest: one batch test
    testMode,         \* the testMode given to startBatchTest
    testCases,        \* the testCases given to startBatchTest, by their positions
    configOk,         \* config.apiKey && config.model
    isBatchLoading,   \* isBatchLoading.value
    batchError,       \* batchError.value
    batchTest,        \* the batchTest object, which currentBatchTest.value refers to
    bpc,              \* where startBatchTest is
    tests,            \* for each test case, where its runSingleTest is
    results,          \* const results of runSequentialTests / runParallelTests
    completedCount,   \* let completedCount of runParallelTests
    caseIdx,          \* let i of the for loop over the test cases
    progress,         \* the counts given to onProgress, in order
    \* the benchmark composable useTokenSpeedTest: the single tests
    isLoading,        \* isLoading.value
    error,            \* error.value
    testResults,      \* testResults.value, by the status of each entry
    spc,              \* where the running startTokenSpeedTest is
    apiRequests,      \* createStreamChatCompletion calls of startTokenSpeedTest
    lastCall          \* where the last call of startTokenSpeedTest returned or got to

\* the variables of the invocation that is modelled step by step
loopVars == <<mode, optMaxSteps, maxSteps, messages, step, isCompleted, pc,
              assistantContent, toolCallMap, toolCalls, tcIdx, parameters, chunk,
              finishSeen, gw, requests, sent, executed, events, cancelRequested,
              outcome>>

\* the variables of a batch test
batchVars == <<testMode, testCases, configOk, isBatchLoading, batchError, batchTest,
               bpc, tests, results, completedCount, caseIdx, progress>>

\* the variables of the single tests
speedVars == <<isLoading, error, testResults, spc, apiRequests, lastCall>>

vars == <<loopVars, other, batchVars, speedVars>>

(***************************************************************************)
(* Bounds of the model.                                                    *)
(***************************************************************************)
\* options.maxSteps is drawn from 0..MaxOptSteps
MaxOptSteps == 2
\* no run of the model issues more than MaxRequests requests
MaxRequests == 3

(***************************************************************************)
(* Agent configurations (agent-config.ts).                                 *)
(***************************************************************************)
DefaultMaxSteps == 99
SimpleMaxSteps == 99
DeveloperMaxSteps == 15
FallbackMaxSteps == 10

DEFAULT_AGENT_CONFIG ==
    [systemPrompt |-> "DEFAULT_SYSTEM_PROMPT", maxSteps |-> DefaultMaxSteps]
SIMPLE_AGENT_CONFIG ==
    [systemPrompt |-> "SIMPLE_SYSTEM_PROMPT", maxSteps |-> SimpleMaxSteps]
DEVELOPER_AGENT_CONFIG ==
    [systemPrompt |-> "DEVELOPER_SYSTEM_PROMPT", maxSteps |-> DeveloperMaxSteps]

Modes == {"", "default", "simple", "developer"}

\* const mode = options?.mode || 'default'
SelectedMode(m) == IF m = "" THEN "default" ELSE m

\* const config = mode === 'simple' ? SIMPLE_AGENT_CONFIG : DEFAULT_AGENT_CONFIG
SelectConfig(m) ==
    IF SelectedMode(m) = "simple" THEN SIMPLE_AGENT_CONFIG ELSE DEFAULT_AGENT_CONFIG

\* options.maxSteps taken as it is, without a fallback
OptionsMaxSteps(opt, cfgMax) == opt

\* options?.maxSteps || config.maxSteps || 10, with 0 for an absent number
StepBudget(opt, cfgMax) ==
    IF opt # 0 THEN opt
    ELSE IF cfgMax # 0 THEN cfgMax
    ELSE FallbackMaxSteps

\* const maxSteps = options?.maxSteps || config.maxSteps || 10
EffectiveMaxSteps(m, opt) == StepBudget(opt, SelectConfig(m).maxSteps)

(***************************************************************************)
(* Strings.                                                                *)
(***************************************************************************)
QT == "\""

RECURSIVE Flatten(_)
\* the concatenation of a sequence of character sequences
Flatten(pieces) ==
    IF pieces = <<>> THEN <<>> ELSE Head(pieces) \o Flatten(Tail(pieces))

RECURSIVE JoinNames(_)
\* the concatenation of a sequence of TLA+ strings
JoinNames(pieces) ==
    IF pieces = <<>> THEN "" ELSE Head(pieces) \o JoinNames(Tail(pieces))

\* the least position after i that holds a quote, 0 when there is none
NextQuote(s, i) ==
    IF \E j \in (i + 1)..Len(s) : s[j] = QT
    THEN CHOOSE j \in (i + 1)..Len(s) :
             s[j] = QT /\ \A k \in (i + 1)..(j - 1) : s[k] # QT
    ELSE 0

(***************************************************************************)
(* JSON.parse on the texts the model streams: the empty object and an      *)
(* object with one string member; any other text is a SyntaxError.         *)
(* The value is the list of members.                                       *)
(***************************************************************************)
JSONParse(s) ==
    IF s = <<"{", "}">> THEN [ok |-> TRUE, value |-> <<>>]
    ELSE IF Len(s) >= 7 /\ s[1] = "{" /\ s[2] = QT
    THEN LET q == NextQuote(s, 2)
             r == IF q # 0 /\ q + 2 <= Len(s) THEN NextQuote(s, q + 2) ELSE 0
         IN  IF /\ q # 0 /\ r # 0
                /\ s[q + 1] = ":" /\ s[q + 2] = QT
                /\ r + 1 = Len(s) /\ s[r + 1] = "}"
             THEN [ok |-> TRUE,
                   value |-> << [key |-> SubSeq(s, 3, q - 1),
                                 value |-> SubSeq(s, q + 3, r - 1)] >>]
             ELSE [ok |-> FALSE, value |-> <<>>]
    ELSE [ok |-> FALSE, value |-> <<>>]

\* JSON.parse(toolArgs || '{}')
ParseToolArgs(toolArgs) ==
    JSONParse(IF toolArgs = <<>> THEN <<"{", "}">> ELSE toolArgs)

\* const { k } = parameters
HasMember(params, k) == \E i \in 1..Len(params) : params[i].key = k
Member(params, k) ==
    params[CHOOSE i \in 1..Len(params) : params[i].key = k].value

(***************************************************************************)
(* Tools (agent-config.ts).  A tool's execute gives [ok |-> TRUE, data] or *)
(* [ok |-> FALSE, error] when the Effect fails.                            *)
(***************************************************************************)
\* defaultTools
ToolNames ==
    {"eval_js", "get_current_time", "wait", "math_calc", "format_data", "finish"}

Digits == {"0", "1", "2", "3", "4"}
DigitVal(c) ==
    CASE c = "0" -> 0 [] c = "1" -> 1 [] c = "2" -> 2 [] c = "3" -> 3 [] c = "4" -> 4

RECURSIVE SumOfTerms(_)
\* the value of d + d + ... + d
SumOfTerms(e) ==
    IF Len(e) = 1 THEN DigitVal(e[1]) ELSE DigitVal(e[1]) + SumOfTerms(SubSeq(e, 3, Len(e)))

\* e is a sum of digits: d (+ d)*
IsSum(e) ==
    /\ Len(e) % 2 = 1
    /\ \A i \in 1..Len(e) : IF i % 2 = 1 THEN e[i] \in Digits ELSE e[i] = "+"

\* new Function('Math', `return ${expression}`)(Math) on the expressions of the
\* model: a sum of digits has its value, no expression gives undefined, any
\* other text is a SyntaxError
MathEval(hasExpr, e) ==
    IF ~hasExpr \/ e = <<>> THEN [ok |-> TRUE, result |-> 0, resultType |-> "undefined"]
    ELSE IF IsSum(e) THEN [ok |-> TRUE, result |-> SumOfTerms(e), resultType |-> "number"]
    ELSE [ok |-> FALSE, result |-> 0, resultType |-> "undefined"]

\* mathCalcTool.execute
MathCalcExecute(params) ==
    LET has  == HasMember(params, <<"expression">>)
        expr == IF has THEN Member(params, <<"expression">>) ELSE <<>>
        v    == MathEval(has, expr)
    IN  IF v.ok
        THEN [ok |-> TRUE, error |-> "",
              data |-> [expression |-> expr, result |-> v.result,
                        resultType |-> v.resultType]]
        ELSE \* throw new Error(`数学计算错误: ...`)
             [ok |-> FALSE, data |-> [none |-> TRUE],
              error |-> "U+6570 U+5B66 U+8BA1 U+7B97 U+9519 U+8BEF: SyntaxError"]

\* finishTool.execute; an absent answer is the empty text
FinishExecute(params) ==
    [ok |-> TRUE, error |-> "",
     data |-> [finished |-> TRUE,
               answer |-> IF HasMember(params, <<"answer">>)
                          THEN Member(params, <<"answer">>) ELSE <<>>]]

\* the execute of the other default tools, which the model never reads
OtherExecute(name, params) ==
    [ok |-> TRUE, error |-> "", data |-> [tool |-> name]]

\* Effect.runPromise(tool.execute(parameters)) for the tool of that name
Execute(name, params) ==
    CASE name = "math_calc" -> MathCalcExecute(params)
      [] name = "finish"    -> FinishExecute(params)
      [] OTHER              -> OtherExecute(name, params)

\* a finish check that never finds completion
FinishNeverReported(name, data) == FALSE

\* toolName === 'finish' && toolResult && typeof toolResult === 'object' &&
\* 'finished' in toolResult && toolResult.finished
FinishReported(name, data) ==
    name = "finish" /\ "finished" \in DOMAIN data /\ data.finished

(***************************************************************************)
(* StepEvents (AgentStepChunk) and results.  An absent error is "".        *)
(***************************************************************************)
NoToolCall == [present |-> FALSE]
NullResult == [isNull |-> TRUE]

ToolCallInfo(name, params, result) ==
    [present |-> TRUE, name |-> name, parameters |-> params, result |-> result]

\* const successResult = {success: true, data: toolResult, toolName, parameters}
SuccessResult(name, params, data) ==
    [isNull |-> FALSE, success |-> TRUE, data |-> data, toolName |-> name,
     parameters |-> params]

\* const errorResult = {success: false, error: errorMessage, toolName, parameters}
ErrorResult(name, params, err) ==
    [isNull |-> FALSE, success |-> FALSE, error |-> err, toolName |-> name,
     parameters |-> params]

\* `未找到工具: ${toolName}`
ToolNotFoundError(name) == "U+672A U+627E U+5230 U+5DE5 U+5177: " \o name

\* result: { success: false, error: `未找到工具: ${toolName}` }
NotFoundResult(name) ==
    [isNull |-> FALSE, success |-> FALSE, error |-> ToolNotFoundError(name)]

\* error: '最大步数限制'
MaxStepsError == "U+6700 U+5927 U+6B65 U+6570 U+9650 U+5236"
\* content: `达到最大步数限制 (${maxSteps})，任务可能未完成。`
MaxStepsNotice(max) ==
    << "U+8FBE U+5230 U+6700 U+5927 U+6B65 U+6570 U+9650 U+5236 (", ToString(max),
       ")U+FF0C U+4EFB U+52A1 U+53EF U+80FD U+672A U+5B8C U+6210 U+3002" >>

StepEvent(content, s, tc, done, err) ==
    [content |-> content, step |-> s, toolCall |-> tc, isDone |-> done, error |-> err]

\* JSON.stringify of a result
JSONStringify(result) == [json |-> result]

(***************************************************************************)
(* The Completion Gateway.  A reply is what the model answers in one turn: *)
(* content, given in the fragments it is streamed in, and tool calls, each *)
(* with its name and its argument text given in the pieces that fragments  *)
(* are cut at.  The Gateway streams a reply in chunks of the shape         *)
(*   {choices: [{delta: {content?, tool_calls?}, finish_reason?}]}.        *)
(***************************************************************************)
ArgsExpr22    == << <<"{", QT, "expression", QT, ":", QT, "2">>, <<"+", "2", QT, "}">> >>
ArgsExprBad   == << <<"{", QT, "expression", QT, ":", QT, "2">>, <<"+", QT, "}">> >>
ArgsAnswer4   == << <<"{", QT, "answer", QT, ":">>, <<QT, "4", QT, "}">> >>
ArgsMalformed == << <<"{", QT, "expression", QT, ":", QT, "2">>, <<"+", "2">> >>
ArgsNone      == << >>

Call(id, name, args) == [id |-> id, name |-> name, args |-> args]

CallMath      == Call("call_a", <<"math_", "calc">>, ArgsExpr22)
CallMathB     == Call("call_b", <<"math_calc">>, ArgsExpr22)
CallMathThrow == Call("call_a", <<"math_", "calc">>, ArgsExprBad)
CallMalformed == Call("call_a", <<"math_", "calc">>, ArgsMalformed)
CallUnknown   == Call("call_a", <<"unknown_tool">>, ArgsNone)
CallUnknownB  == Call("call_b", <<"unknown_tool">>, ArgsNone)
CallFinish    == Call("call_a", <<"fin", "ish">>, ArgsAnswer4)
CallFinishB   == Call("call_b", <<"finish">>, ArgsAnswer4)

Reply(content, calls) == [content |-> content, calls |-> calls]

\* the replies the model may give to a request
Replies ==
    { Reply(<< <<"2">>, <<"+2=4">> >>, <<>>),           \* a direct answer
      Reply(<<>>, <<>>),                                \* an empty answer
      Reply(<<>>, <<CallMath, CallFinishB>>),           \* a tool, then finish
      Reply(<< <<"let me compute">> >>, <<CallMath>>),  \* content and a tool
      Reply(<<>>, <<CallFinish, CallMathB>>),           \* finish, then another tool
      Reply(<<>>, <<CallMalformed, CallMathB>>),        \* arguments that are no JSON
      Reply(<<>>, <<CallUnknown, CallFinishB>>),        \* an unregistered tool, then finish
      Reply(<<>>, <<CallMathThrow, CallUnknownB>>) }    \* a failing tool, an unregistered tool

\* the Gateway before it has sent anything of reply r
GatewayOpen(r) ==
    [reply |-> r, c |-> 0,
     n |-> [i \in 1..Len(r.calls) |-> 0],
     a |-> [i \in 1..Len(r.calls) |-> 0]]

NoGateway == GatewayOpen(Reply(<<>>, <<>>))

\* everything of the reply has been sent
FullySent(g) ==
    /\ g.c = Len(g.reply.content)
    /\ \A i \in 1..Len(g.reply.calls) :
          /\ g.n[i] = Len(g.reply.calls[i].name)
          /\ g.a[i] = Len(g.reply.calls[i].args)

\* the greatest number of pieces of a name or an argument text of reply r
MostPieces(r) ==
    LET lens == {Len(r.calls[i].name) : i \in 1..Len(r.calls)}
                  \cup {Len(r.calls[i].args) : i \in 1..Len(r.calls)}
    IN  IF lens = {} THEN 0 ELSE CHOOSE m \in lens : \A l \in lens : l <= m

\* what one chunk may advance: dc content fragments (0 or 1), and for call i
\* dn[i] pieces of its name and da[i] pieces of its arguments; something advances
Advances(g) ==
    LET N == Len(g.reply.calls)
        L == MostPieces(g.reply) IN
    { adv \in [dc : 0..(IF g.c < Len(g.reply.content) THEN 1 ELSE 0),
               dn : [1..N -> 0..L], da : [1..N -> 0..L], desc : BOOLEAN] :
        /\ \A i \in 1..N :
              /\ g.n[i] + adv.dn[i] <= Len(g.reply.calls[i].name)
              /\ g.a[i] + adv.da[i] <= Len(g.reply.calls[i].args)
        /\ adv.dc + Cardinality({i \in 1..N : adv.dn[i] + adv.da[i] > 0}) > 0
        /\ adv.desc => Cardinality({i \in 1..N : adv.dn[i] + adv.da[i] > 0}) > 1 }

AfterAdvance(g, adv) ==
    [g EXCEPT !.c = @ + adv.dc,
              !.n = [i \in DOMAIN @ |-> @[i] + adv.dn[i]],
              !.a = [i \in DOMAIN @ |-> @[i] + adv.da[i]]]

\* the fragment of call i in a chunk: the id comes with the first fragment only
Delta(g, adv, i) ==
    LET call == g.reply.calls[i] IN
    [index |-> i - 1,
     id |-> IF g.n[i] = 0 /\ g.a[i] = 0 THEN call.id ELSE "",
     name |-> JoinNames(SubSeq(call.name, g.n[i] + 1, g.n[i] + adv.dn[i])),
     arguments |-> Flatten(SubSeq(call.args, g.a[i] + 1, g.a[i] + adv.da[i]))]

RECURSIVE DeltasOf(_, _, _)
\* the fragments of the calls in idxs, in that order
DeltasOf(g, adv, idxs) ==
    IF idxs = <<>> THEN <<>>
    ELSE <<Delta(g, adv, Head(idxs))>> \o DeltasOf(g, adv, Tail(idxs))

RECURSIVE Touched(_, _, _)
\* the calls that adv advances, from i on, ascending
Touched(adv, i, N) ==
    IF i > N THEN <<>>
    ELSE (IF adv.dn[i] + adv.da[i] > 0 THEN <<i>> ELSE <<>>) \o Touched(adv, i + 1, N)

Reverse(s) == [i \in 1..Len(s) |-> s[Len(s) + 1 - i]]

\* the chunk that carries adv; fr: it carries a finish_reason
ChunkOf(g, adv, fr) ==
    LET asc == Touched(adv, 1, Len(g.reply.calls)) IN
    [content |-> IF adv.dc = 1 THEN g.reply.content[g.c + 1] ELSE <<>>,
     tool_calls |-> DeltasOf(g, adv, IF adv.desc THEN Reverse(asc) ELSE asc),
     finish_reason |-> fr]

NoChunk == [content |-> <<>>, tool_calls |-> <<>>, finish_reason |-> FALSE]

(***************************************************************************)
(* The Delta Aggregator (openai-config.ts 456-476, 497).  toolCallMap is a *)
(* JavaScript Map: its entries are kept in the order the keys were set.    *)
(***************************************************************************)
MapHas(map, index) == \E p \in 1..Len(map) : map[p].index = index
MapPos(map, index) == CHOOSE p \in 1..Len(map) : map[p].index = index

\* toolCall.function.name += toolCallDelta.function.name
AppendName(old, frag) == old \o frag
\* the fragment assigned, not appended
OverwriteArguments(old, frag) == frag

\* toolCall.function.arguments += toolCallDelta.function.arguments
AppendArguments(old, frag) == old \o frag

\* the body of for (const toolCallDelta of delta.tool_calls)
AccumulateDelta(map, d) ==
    LET m1 == IF MapHas(map, d.index) THEN map
              ELSE Append(map, [index |-> d.index, id |-> d.id, type |-> "function",
                                name |-> "", arguments |-> <<>>])
        p  == MapPos(m1, d.index)
    IN  [m1 EXCEPT
           ![p].name = IF d.name # "" THEN AppendName(@, d.name) ELSE @,
           ![p].arguments = IF d.arguments # <<>> THEN AppendArguments(@, d.arguments) ELSE @]

RECURSIVE Accumulate(_, _)
\* for (const toolCallDelta of delta.tool_calls) { ... }
Accumulate(map, deltas) ==
    IF deltas = <<>> THEN map
    ELSE Accumulate(AccumulateDelta(map, Head(deltas)), Tail(deltas))

\* Array.from(toolCallMap.values()), then the tool_calls of the assistant turn
AssembleToolCalls(map) ==
    [p \in 1..Len(map) |->
        [id |-> map[p].id, type |-> map[p].type, name |-> map[p].name,
         arguments |-> map[p].arguments]]

(***************************************************************************)
(* History turns.                                                          *)
(***************************************************************************)
SystemTurn(prompt) == [role |-> "system", content |-> prompt]
UserTurn(text) == [role |-> "user", content |-> text]
AssistantTurn(content, calls) ==
    [role |-> "assistant", content |-> content, tool_calls |-> calls]
ToolTurn(result, id) ==
    [role |-> "tool", content |-> JSONStringify(result), tool_call_id |-> id]

UserMessage == "what is 2+2?"

\* toolCall.id || `tool_${step}_${Date.now()}`
ToolCallId(id, s) == IF id # "" THEN id ELSE "tool_generated"

(***************************************************************************)
(* The generator and its consumer.                                         *)
(*                                                                         *)
(* pc is the place of agentLoopGenerator:                                  *)
(*   "loop"            at the while condition                              *)
(*   "await_response"  awaiting createStreamChatCompletion                 *)
(*   "stream"          awaiting the next chunk of the response             *)
(*   "chunk_rest"      resumed after the yield of a content event          *)
(*   "assemble"        after the for await loop                            *)
(*   "dispatch"        at the head of the for loop over the tool calls     *)
(*   "lookup"          resumed after the yield of the pre-dispatch event   *)
(*   "exec"            awaiting tool.execute                               *)
(*   "after_post"      resumed after the yield of the post-dispatch event  *)
(*   "next_call"       resumed after the yield of a tool error event       *)
(*   "after_final", "after_budget", "after_fatal"                          *)
(*                     resumed after the yield of a terminal event         *)
(*   "done"            the generator has returned                          *)
(*                                                                         *)
(* The consumer is Stream.fromAsyncIterable (788-800): it asks for the     *)
(* next event as soon as it has one, and it cancels by calling return() on *)
(* the generator.  A generator that is suspended at a yield returns at     *)
(* once.  A generator that is running keeps running up to its next yield:  *)
(* the value of that yield answers the request the consumer has given up,  *)
(* and the generator returns there.                                        *)
(***************************************************************************)
AwaitPcs == {"await_response", "stream", "exec"}
YieldPcs == {"chunk_rest", "lookup", "after_post", "next_call",
             "after_final", "after_budget", "after_fatal"}

\* the request is in flight or its response stream is open: from the call of
\* createStreamChatCompletion to the end of the for await over the response
GatewayConnectionOpen == pc \in {"await_response", "stream", "chunk_rest"}

\* the loop condition with the budget test off by one
WhileConditionInclusive(s, max, completed) == s <= max /\ ~completed

\* while (step < maxSteps && !isCompleted)
WhileCondition(s, max, completed) == s < max /\ ~completed

\* the test after the loop without its !isCompleted
MaxStepsReachedAnyway(s, max, completed) == s >= max

\* if (step >= maxSteps && !isCompleted)
MaxStepsReached(s, max, completed) == s >= max /\ ~completed

\* a consumer that still takes what a cancelled generator yields
DeliverAfterCancel(evs, ev, cancelled) == Append(evs, ev)

\* what the consumer holds after the generator yields ev
Deliver(evs, ev, cancelled) == IF cancelled THEN evs ELSE Append(evs, ev)

\* yield ev; the generator goes on at next when it is resumed
Yield(ev, next) ==
    /\ events' = Deliver(events, ev, cancelRequested)
    /\ pc' = IF cancelRequested THEN "done" ELSE next
    /\ outcome' = IF cancelRequested THEN "cancelled" ELSE outcome

\* the events of the loop
ContentEvent(text, s) == StepEvent(text, s, NoToolCall, FALSE, "")
PreDispatchEvent(name, params, s) ==
    StepEvent(<<>>, s, ToolCallInfo(name, params, NullResult), FALSE, "")
NotFoundEvent(name, params, s) ==
    StepEvent(<<>>, s, ToolCallInfo(name, params, NotFoundResult(name)), FALSE,
              ToolNotFoundError(name))
PostDispatchEvent(name, params, data, s) ==
    StepEvent(<<>>, s, ToolCallInfo(name, params, SuccessResult(name, params, data)),
              FALSE, "")
ToolErrorEvent(name, params, err, s) ==
    StepEvent(<<>>, s, ToolCallInfo(name, params, ErrorResult(name, params, err)),
              FALSE, err)
\* the final event without the answer as its content
FinalEventWithoutAnswer(name, params, data, s) ==
    StepEvent(<<>>, s,
              ToolCallInfo(name, params, SuccessResult(name, params, data)), TRUE, "")
FinalEvent(name, params, data, s) ==
    StepEvent(data.answer, s,
              ToolCallInfo(name, params, SuccessResult(name, params, data)), TRUE, "")
\* the max-steps event without its error
MaxStepsEventWithoutError(s, max) ==
    StepEvent(MaxStepsNotice(max), s, NoToolCall, TRUE, "")
MaxStepsEvent(s, max) ==
    StepEvent(MaxStepsNotice(max), s, NoToolCall, TRUE, MaxStepsError)
FatalEvent(err, s) == StepEvent(<<>>, s, NoToolCall, TRUE, err)

\* a catch that starts the loop again instead of ending it
CatchAndRetry(err) ==
    /\ events' = events
    /\ pc' = "loop"
    /\ outcome' = outcome
    /\ assistantContent' = <<>>
    /\ toolCallMap' = <<>>
    /\ toolCalls' = <<>>
    /\ tcIdx' = 0
    /\ parameters' = <<>>
    /\ chunk' = NoChunk
    /\ finishSeen' = FALSE
    /\ gw' = NoGateway

\* catch (error) { yield {content: '', step, isDone: true, error: ...} }: the
\* variables of the loop body are out of scope, the response stream is over
Catch(err) ==
    /\ Yield(FatalEvent(err, step), "after_fatal")
    /\ assistantContent' = <<>>
    /\ toolCallMap' = <<>>
    /\ toolCalls' = <<>>
    /\ tcIdx' = 0
    /\ parameters' = <<>>
    /\ chunk' = NoChunk
    /\ finishSeen' = FALSE
    /\ gw' = NoGateway

\* the code after the while loop, reached with the given isCompleted
ExitLoop(completed, how) ==
    IF MaxStepsReached(step, maxSteps, completed)
    THEN Yield(MaxStepsEvent(step, maxSteps), "after_budget")
    ELSE /\ pc' = "done"
         /\ outcome' = how
         /\ events' = events

CurrentCall == toolCalls[tcIdx]

\* no second invocation
NoInvocation == [pc |-> "none"]

\* the state of an invocation after construction
InitLoopState ==
    /\ mode \in Modes
    /\ optMaxSteps \in 0..MaxOptSteps
    /\ maxSteps = EffectiveMaxSteps(mode, optMaxSteps)
    /\ messages = << SystemTurn(SelectConfig(mode).systemPrompt), UserTurn(UserMessage) >>
    /\ step = 0
    /\ isCompleted = FALSE
    /\ pc = "loop"
    /\ assistantContent = <<>>
    /\ toolCallMap = <<>>
    /\ toolCalls = <<>>
    /\ tcIdx = 0
    /\ parameters = <<>>
    /\ chunk = NoChunk
    /\ finishSeen = FALSE
    /\ gw = NoGateway
    /\ requests = 0
    /\ sent = <<>>
    /\ executed = <<>>
    /\ events = <<>>
    /\ cancelRequested = FALSE
    /\ outcome = "running"

(***************************************************************************)
(* The benchmark composable (src/src/composables/useTokenSpeedTest.ts)      *)
(* after useTokenSpeedTest(): no test has been started.                    *)
(***************************************************************************)
\* currentBatchTest.value = null
NoBatch == [status |-> "none", results |-> <<>>]

\* the refs of the batch test as useTokenSpeedTest creates them (79-82), and
\* no call of startBatchTest
BatchIdle ==
    /\ isBatchLoading = FALSE
    /\ batchError = ""
    /\ batchTest = NoBatch
    /\ bpc = "idle"
    /\ tests = <<>>
    /\ results = <<>>
    /\ completedCount = 0
    /\ caseIdx = 0
    /\ progress = <<>>

\* the refs of the single test as useTokenSpeedTest creates them (74-76), and
\* no call of startTokenSpeedTest
SpeedIdle ==
    /\ isLoading = FALSE
    /\ error = ""
    /\ testResults = <<>>
    /\ spc = "idle"
    /\ apiRequests = 0
    /\ lastCall = "none"

\* the composable is not used
NoBenchmark ==
    /\ testMode = "sequential"
    /\ testCases = <<>>
    /\ configOk = FALSE
    /\ BatchIdle
    /\ SpeedIdle

Init == InitLoopState /\ other = NoInvocation /\ NoBenchmark

\* an iteration that counts two steps
LoopIterateCountsTwice ==
    /\ pc = "loop"
    /\ WhileCondition(step, maxSteps, isCompleted)
    /\ requests < MaxRequests
    /\ step' = step + 2
    /\ requests' = requests + 1
    /\ sent' = messages
    /\ pc' = "await_response"
    /\ UNCHANGED <<batchVars, speedVars, other, mode, optMaxSteps, maxSteps, messages, isCompleted,
                   assistantContent, toolCallMap, toolCalls, tcIdx, parameters,
                   chunk, finishSeen, gw, executed, events, cancelRequested, outcome>>

\* an iteration whose request carries only the turns added since the last request
LoopIterateSendsNewTurns ==
    /\ pc = "loop"
    /\ WhileCondition(step, maxSteps, isCompleted)
    /\ requests < MaxRequests
    /\ step' = step + 1
    /\ requests' = requests + 1
    /\ sent' = SubSeq(messages, Len(sent) + 1, Len(messages))
    /\ pc' = "await_response"
    /\ UNCHANGED <<batchVars, speedVars, other, mode, optMaxSteps, maxSteps, messages, isCompleted,
                   assistantContent, toolCallMap, toolCalls, tcIdx, parameters,
                   chunk, finishSeen, gw, executed, events, cancelRequested, outcome>>

\* while condition true: step++ and the request with the history (403-426)
LoopIterate ==
    /\ pc = "loop"
    /\ WhileCondition(step, maxSteps, isCompleted)
    /\ requests < MaxRequests
    /\ step' = step + 1
    /\ requests' = requests + 1
    /\ sent' = messages
    /\ pc' = "await_response"
    /\ UNCHANGED <<batchVars, speedVars, other, mode, optMaxSteps, maxSteps, messages, isCompleted,
                   assistantContent, toolCallMap, toolCalls, tcIdx, parameters,
                   chunk, finishSeen, gw, executed, events, cancelRequested, outcome>>

\* while condition false (753-767)
LoopExit ==
    /\ pc = "loop"
    /\ ~WhileCondition(step, maxSteps, isCompleted)
    /\ ExitLoop(isCompleted, "finished")
    /\ UNCHANGED <<batchVars, speedVars, other, sent, mode, optMaxSteps, maxSteps, messages, step, isCompleted,
                   assistantContent, toolCallMap, toolCalls, tcIdx, parameters,
                   chunk, finishSeen, gw, requests, executed, cancelRequested>>

\* the request is answered: the response stream opens (419-429)
GatewayRespond ==
    /\ pc = "await_response"
    /\ \E r \in Replies : gw' = GatewayOpen(r)
    /\ assistantContent' = <<>>
    /\ toolCallMap' = <<>>
    /\ finishSeen' = FALSE
    /\ pc' = "stream"
    /\ UNCHANGED <<batchVars, speedVars, other, sent, mode, optMaxSteps, maxSteps, messages, step, isCompleted,
                   toolCalls, tcIdx, parameters, chunk, requests, executed,
                   events, cancelRequested, outcome>>

\* the request fails: Effect.runPromise rejects (openai-client.ts 169-183)
GatewayRejects ==
    /\ pc = "await_response"
    /\ Catch("OpenAI API Error")
    /\ UNCHANGED <<batchVars, speedVars, other, sent, mode, optMaxSteps, maxSteps, messages, step, isCompleted,
                   requests, executed, cancelRequested>>

\* the rest of the for await body, after the content: tool_calls and finish_reason
RestOfChunk(ch) ==
    /\ toolCallMap' = Accumulate(toolCallMap, ch.tool_calls)
    /\ finishSeen' = ch.finish_reason
    /\ pc' = IF ch.finish_reason THEN "assemble" ELSE "stream"
    /\ chunk' = NoChunk
    /\ UNCHANGED <<events, outcome>>

\* a for await body that only accumulates the content, without a content event
HandleChunkBuffered(ch) ==
    /\ assistantContent' = assistantContent \o ch.content
    /\ RestOfChunk(ch)

\* the for await body for chunk ch (432-486)
HandleChunk(ch) ==
    IF ch.content # <<>>
    THEN /\ assistantContent' = assistantContent \o ch.content
         /\ chunk' = ch
         /\ Yield(ContentEvent(ch.content, step), "chunk_rest")
         /\ UNCHANGED <<toolCallMap, finishSeen>>
    ELSE /\ RestOfChunk(ch)
         /\ UNCHANGED assistantContent

\* the Gateway delivers a chunk with content or tool-call fragments
StreamChunk ==
    /\ pc = "stream"
    /\ \E adv \in Advances(gw), fr \in BOOLEAN :
          /\ fr => FullySent(AfterAdvance(gw, adv))
          /\ gw' = AfterAdvance(gw, adv)
          /\ HandleChunk(ChunkOf(gw, adv, fr))
    /\ UNCHANGED <<batchVars, speedVars, other, sent, mode, optMaxSteps, maxSteps, messages, step, isCompleted,
                   toolCalls, tcIdx, parameters, requests, executed, cancelRequested>>

\* the Gateway delivers a chunk that only carries the finish_reason
StreamMarker ==
    /\ pc = "stream"
    /\ FullySent(gw)
    /\ HandleChunk([NoChunk EXCEPT !.finish_reason = TRUE])
    /\ UNCHANGED <<batchVars, speedVars, other, sent, mode, optMaxSteps, maxSteps, messages, step, isCompleted,
                   toolCalls, tcIdx, parameters, gw, requests, executed,
                   cancelRequested>>

\* the generator is resumed after a content event (444-485)
ChunkRest ==
    /\ pc = "chunk_rest"
    /\ RestOfChunk(chunk)
    /\ UNCHANGED <<batchVars, speedVars, other, sent, mode, optMaxSteps, maxSteps, messages, step, isCompleted,
                   assistantContent, toolCalls, tcIdx, parameters, gw, requests,
                   executed, cancelRequested>>

\* the response stream ends without a finish_reason
StreamEnds ==
    /\ pc = "stream"
    /\ FullySent(gw)
    /\ pc' = "assemble"
    /\ UNCHANGED <<batchVars, speedVars, other, sent, mode, optMaxSteps, maxSteps, messages, step, isCompleted,
                   assistantContent, toolCallMap, toolCalls, tcIdx, parameters,
                   chunk, finishSeen, gw, requests, executed, events,
                   cancelRequested, outcome>>

\* the response stream fails (openai-client.ts 186-204)
StreamFails ==
    /\ pc = "stream"
    /\ Catch("Stream processing failed")
    /\ UNCHANGED <<batchVars, speedVars, other, sent, mode, optMaxSteps, maxSteps, messages, step, isCompleted,
                   requests, executed, cancelRequested>>

\* after the stream: the assistant turn, and the direct answer (496-541, 734-750)
Assemble ==
    /\ pc = "assemble"
    /\ LET calls == AssembleToolCalls(toolCallMap) IN
          /\ toolCalls' = calls
          /\ messages' = Append(messages, AssistantTurn(assistantContent, calls))
          /\ IF Len(calls) > 0
             THEN /\ tcIdx' = 1
                  /\ pc' = "dispatch"
                  /\ UNCHANGED <<isCompleted, events, outcome>>
             ELSE /\ isCompleted' = TRUE
                  /\ tcIdx' = 0
                  /\ ExitLoop(TRUE, "finished")
    /\ UNCHANGED <<batchVars, speedVars, other, sent, mode, optMaxSteps, maxSteps, step, assistantContent, toolCallMap,
                   parameters, chunk, finishSeen, gw, requests, executed,
                   cancelRequested>>

\* the for loop over the tool calls is over and isCompleted is false (744)
ForLoopEnds ==
    /\ pc = "dispatch"
    /\ tcIdx > Len(toolCalls)
    /\ pc' = "loop"
    /\ UNCHANGED <<batchVars, speedVars, other, sent, mode, optMaxSteps, maxSteps, messages, step, isCompleted,
                   assistantContent, toolCallMap, toolCalls, tcIdx, parameters,
                   chunk, finishSeen, gw, requests, executed, events,
                   cancelRequested, outcome>>

\* JSON.parse(toolArgs || '{}') throws: the catch of the generator (584, 773-785)
ParseFails ==
    /\ pc = "dispatch"
    /\ tcIdx <= Len(toolCalls)
    /\ ~ParseToolArgs(CurrentCall.arguments).ok
    /\ Catch("SyntaxError: JSON.parse")
    /\ UNCHANGED <<batchVars, speedVars, other, sent, mode, optMaxSteps, maxSteps, messages, step, isCompleted,
                   requests, executed, cancelRequested>>

\* the arguments parse: the pre-dispatch event (584-603)
PreDispatch ==
    /\ pc = "dispatch"
    /\ tcIdx <= Len(toolCalls)
    /\ ParseToolArgs(CurrentCall.arguments).ok
    /\ parameters' = ParseToolArgs(CurrentCall.arguments).value
    /\ Yield(PreDispatchEvent(CurrentCall.name, parameters', step), "lookup")
    /\ UNCHANGED <<batchVars, speedVars, other, sent, mode, optMaxSteps, maxSteps, messages, step, isCompleted,
                   assistantContent, toolCallMap, toolCalls, tcIdx, chunk,
                   finishSeen, gw, requests, executed, cancelRequested>>

\* an unregistered tool that ends the loop through the catch
ToolNotFoundIsFatal ==
    /\ pc = "lookup"
    /\ CurrentCall.name \notin ToolNames
    /\ Catch(ToolNotFoundError(CurrentCall.name))
    /\ UNCHANGED <<batchVars, speedVars, other, sent, mode, optMaxSteps, maxSteps, messages, step, isCompleted,
                   requests, executed, cancelRequested>>

\* tools.find gives nothing (606-621)
ToolNotFound ==
    /\ pc = "lookup"
    /\ CurrentCall.name \notin ToolNames
    /\ Yield(NotFoundEvent(CurrentCall.name, parameters, step), "next_call")
    /\ UNCHANGED <<batchVars, speedVars, other, sent, mode, optMaxSteps, maxSteps, messages, step, isCompleted,
                   assistantContent, toolCallMap, toolCalls, tcIdx, parameters,
                   chunk, finishSeen, gw, requests, executed, cancelRequested>>

\* a tool started without waiting for its result: the for loop goes on to the
\* next call while the tool runs
ToolStartsWithoutAwait ==
    /\ pc = "lookup"
    /\ CurrentCall.name \in ToolNames
    /\ executed' = Append(executed, [name |-> CurrentCall.name,
                                     parameters |-> parameters, step |-> step])
    /\ tcIdx' = tcIdx + 1
    /\ pc' = "dispatch"
    /\ UNCHANGED <<batchVars, speedVars, other, sent, mode, optMaxSteps, maxSteps, messages, step, isCompleted,
                   assistantContent, toolCallMap, toolCalls, parameters,
                   chunk, finishSeen, gw, requests, events, cancelRequested, outcome>>

\* tools.find gives the tool: tool.execute starts (606, 627)
ToolStarts ==
    /\ pc = "lookup"
    /\ CurrentCall.name \in ToolNames
    /\ executed' = Append(executed, [name |-> CurrentCall.name,
                                     parameters |-> parameters, step |-> step])
    /\ pc' = "exec"
    /\ UNCHANGED <<batchVars, speedVars, other, sent, mode, optMaxSteps, maxSteps, messages, step, isCompleted,
                   assistantContent, toolCallMap, toolCalls, tcIdx, parameters,
                   chunk, finishSeen, gw, requests, events, cancelRequested, outcome>>

\* tool.execute succeeds: the tool turn and the post-dispatch event (627-665)
ToolSucceeds ==
    /\ pc = "exec"
    /\ LET name == CurrentCall.name
           r    == Execute(name, parameters) IN
          /\ r.ok
          /\ messages' = Append(messages,
                 ToolTurn(SuccessResult(name, parameters, r.data),
                          ToolCallId(CurrentCall.id, step)))
          /\ Yield(PostDispatchEvent(name, parameters, r.data, step), "after_post")
    /\ UNCHANGED <<batchVars, speedVars, other, sent, mode, optMaxSteps, maxSteps, step, isCompleted,
                   assistantContent, toolCallMap, toolCalls, tcIdx, parameters,
                   chunk, finishSeen, gw, requests, executed, cancelRequested>>

\* a failing tool that ends the loop through the catch of the generator
ToolFailsIsFatal ==
    /\ pc = "exec"
    /\ ~Execute(CurrentCall.name, parameters).ok
    /\ Catch(Execute(CurrentCall.name, parameters).error)
    /\ UNCHANGED <<batchVars, speedVars, other, sent, mode, optMaxSteps, maxSteps, messages, step, isCompleted,
                   requests, executed, cancelRequested>>

\* tool.execute fails: the tool turn and the error event (696-732)
ToolFails ==
    /\ pc = "exec"
    /\ LET name == CurrentCall.name
           r    == Execute(name, parameters) IN
          /\ ~r.ok
          /\ messages' = Append(messages,
                 ToolTurn(ErrorResult(name, parameters, r.error),
                          ToolCallId(CurrentCall.id, step)))
          /\ Yield(ToolErrorEvent(name, parameters, r.error, step), "next_call")
    /\ UNCHANGED <<batchVars, speedVars, other, sent, mode, optMaxSteps, maxSteps, step, isCompleted,
                   assistantContent, toolCallMap, toolCalls, tcIdx, parameters,
                   chunk, finishSeen, gw, requests, executed, cancelRequested>>

\* the executed tool is finish and reports completion (667-695)
FinishDetected ==
    /\ pc = "after_post"
    /\ LET name == CurrentCall.name
           r    == Execute(name, parameters) IN
          /\ FinishReported(name, r.data)
          /\ isCompleted' = TRUE
          /\ Yield(FinalEvent(name, parameters, r.data, step), "after_final")
    /\ UNCHANGED <<batchVars, speedVars, other, sent, mode, optMaxSteps, maxSteps, messages, step,
                   assistantContent, toolCallMap, toolCalls, tcIdx, parameters,
                   chunk, finishSeen, gw, requests, executed, cancelRequested>>

\* the next tool call of the turn: after a tool error event (continue, or the
\* end of the catch), or after a post-dispatch event that does not finish
NextCall ==
    /\ \/ pc = "next_call"
       \/ /\ pc = "after_post"
          /\ ~FinishReported(CurrentCall.name, Execute(CurrentCall.name, parameters).data)
    /\ tcIdx' = tcIdx + 1
    /\ pc' = "dispatch"
    /\ UNCHANGED <<batchVars, speedVars, other, sent, mode, optMaxSteps, maxSteps, messages, step, isCompleted,
                   assistantContent, toolCallMap, toolCalls, parameters,
                   chunk, finishSeen, gw, requests, executed, events,
                   cancelRequested, outcome>>

\* the final event without the break: the for loop takes the next call
AfterFinalWithoutBreak ==
    /\ pc = "after_final"
    /\ tcIdx' = tcIdx + 1
    /\ pc' = "dispatch"
    /\ UNCHANGED <<batchVars, speedVars, other, sent, mode, optMaxSteps, maxSteps, messages, step, isCompleted,
                   assistantContent, toolCallMap, toolCalls, parameters,
                   chunk, finishSeen, gw, requests, executed, events,
                   cancelRequested, outcome>>

\* resumed after the final event: break, break, the code after the loop (694, 744-772)
AfterFinal ==
    /\ pc = "after_final"
    /\ ExitLoop(isCompleted, "finished")
    /\ UNCHANGED <<batchVars, speedVars, other, sent, mode, optMaxSteps, maxSteps, messages, step, isCompleted,
                   assistantContent, toolCallMap, toolCalls, tcIdx, parameters,
                   chunk, finishSeen, gw, requests, executed, cancelRequested>>

\* resumed after the max-steps event: the generator returns (767-772)
AfterBudget ==
    /\ pc = "after_budget"
    /\ pc' = "done"
    /\ outcome' = "budget_exceeded"
    /\ UNCHANGED <<batchVars, speedVars, other, sent, mode, optMaxSteps, maxSteps, messages, step, isCompleted,
                   assistantContent, toolCallMap, toolCalls, tcIdx, parameters,
                   chunk, finishSeen, gw, requests, executed, events,
                   cancelRequested>>

\* resumed after the event of the catch: the generator returns (785-786)
AfterFatal ==
    /\ pc = "after_fatal"
    /\ pc' = "done"
    /\ outcome' = "error"
    /\ UNCHANGED <<batchVars, speedVars, other, sent, mode, optMaxSteps, maxSteps, messages, step, isCompleted,
                   assistantContent, toolCallMap, toolCalls, tcIdx, parameters,
                   chunk, finishSeen, gw, requests, executed, events,
                   cancelRequested>>

\* the consumer cancels while the generator is running (awaiting the Gateway
\* or a tool): return() waits for the next yield
Cancel ==
    /\ pc \in AwaitPcs
    /\ ~cancelRequested
    /\ cancelRequested' = TRUE
    /\ UNCHANGED <<batchVars, speedVars, other, sent, mode, optMaxSteps, maxSteps, messages, step, isCompleted, pc,
                   assistantContent, toolCallMap, toolCalls, tcIdx, parameters,
                   chunk, finishSeen, gw, requests, executed, events, outcome>>

\* the consumer cancels while the generator is suspended at a yield
CancelSuspended ==
    /\ pc \in YieldPcs
    /\ ~cancelRequested
    /\ cancelRequested' = TRUE
    /\ pc' = "done"
    /\ outcome' = "cancelled"
    /\ UNCHANGED <<batchVars, speedVars, other, sent, mode, optMaxSteps, maxSteps, messages, step, isCompleted,
                   assistantContent, toolCallMap, toolCalls, tcIdx, parameters,
                   chunk, finishSeen, gw, requests, executed, events>>

Next ==
    \/ LoopIterate
    \/ LoopExit
    \/ GatewayRespond
    \/ GatewayRejects
    \/ StreamChunk
    \/ StreamMarker
    \/ ChunkRest
    \/ StreamEnds
    \/ StreamFails
    \/ Assemble
    \/ ForLoopEnds
    \/ ParseFails
    \/ PreDispatch
    \/ ToolNotFound
    \/ ToolStarts
    \/ ToolSucceeds
    \/ ToolFails
    \/ FinishDetected
    \/ NextCall
    \/ AfterFinal
    \/ AfterBudget
    \/ AfterFatal
    \/ Cancel
    \/ CancelSuspended

Spec == Init /\ [][Next]_vars

(***************************************************************************)
(* Properties.                                                             *)
(***************************************************************************)
Last(seq) == seq[Len(seq)]
TerminalEvents == {i \in 1..Len(events) : events[i].isDone}
ToolEvents == SelectSeq(events, LAMBDA e : e.toolCall.present)
\* the run has ended by itself and the consumer has not cancelled
EndedByItself ==
    pc = "done" /\ ~cancelRequested
       /\ outcome \in {"finished", "budget_exceeded", "error"}

\* C1: a run with step budget maxSteps = K issues at most K requests
\* (createStreamChatCompletion calls) to the Gateway, whatever is streamed
\* and whatever the tools return.
C1_AtMostKRequests == requests <= maxSteps /\ step = requests

\* C1 witness: a budget of 2 used up by two requests.
C1_Witness ==
    optMaxSteps = 2 /\ requests = 2 /\ pc = "done" /\ outcome = "budget_exceeded"

\* C2 (as claimed): every run that ends by finish, by a direct answer, by the
\* exhausted budget or by a fatal error has emitted exactly one StepEvent with
\* isDone:true, and that event is the last one of the stream.
C2_ExactlyOneTerminalEvent ==
    EndedByItself =>
        /\ Cardinality(TerminalEvents) = 1
        /\ Last(events).isDone

\* C3 (as claimed): arguments that are no JSON do not end the loop: a failure
\* result {success:false, error, toolName, parameters} is appended to history
\* as the tool turn of that call and emitted as a non-terminal StepEvent, and
\* the loop goes on with the next tool call.
C3_MalformedArgumentsFeedBack ==
    [][ ( /\ pc = "dispatch"
          /\ tcIdx <= Len(toolCalls)
          /\ ~ParseToolArgs(CurrentCall.arguments).ok
          /\ ~cancelRequested )
        => ( /\ pc' = "next_call"
             /\ Len(messages') = Len(messages) + 1
             /\ Last(messages').role = "tool"
             /\ Last(messages').tool_call_id = CurrentCall.id
             /\ ~Last(messages').content.json.success
             /\ Len(events') = Len(events) + 1
             /\ ~Last(events').isDone
             /\ Last(events').toolCall.present
             /\ ~Last(events').toolCall.result.success ) ]_vars

\* C4: the name and the argument text that the aggregator holds for an index
\* are the in-order concatenation of the fragments sent for that index, for
\* every cut of the texts into fragments and every interleaving with the
\* fragments of other indexes; once the reply is fully sent they are the
\* whole name and the whole argument text of the call, as in a single chunk.
C4_ConcatenationPerIndex ==
    /\ pc \in {"stream", "assemble"} =>
          \A i \in 1..Len(gw.reply.calls) :
             LET call == gw.reply.calls[i] IN
             IF gw.n[i] + gw.a[i] = 0 THEN ~MapHas(toolCallMap, i - 1)
             ELSE /\ MapHas(toolCallMap, i - 1)
                  /\ LET e == toolCallMap[MapPos(toolCallMap, i - 1)] IN
                        /\ e.id = call.id
                        /\ e.name = JoinNames(SubSeq(call.name, 1, gw.n[i]))
                        /\ e.arguments = Flatten(SubSeq(call.args, 1, gw.a[i]))
    /\ pc \in {"dispatch", "lookup", "exec", "after_post", "next_call"} =>
          /\ Len(toolCalls) = Len(gw.reply.calls)
          /\ \A i \in 1..Len(gw.reply.calls) :
                \E p \in 1..Len(toolCalls) :
                   /\ toolCalls[p].id = gw.reply.calls[i].id
                   /\ toolCalls[p].name = JoinNames(gw.reply.calls[i].name)
                   /\ toolCalls[p].arguments = Flatten(gw.reply.calls[i].args)

\* C4 witness: two calls, each with part of its arguments received, the
\* fragments of index 1 having come first.
C4_Witness ==
    /\ pc = "stream"
    /\ Len(toolCallMap) = 2
    /\ toolCallMap[1].index = 1
    /\ gw.a[1] = 1 /\ gw.a[2] = 1
    /\ gw.n[1] = 1

\* C5: when the first turn ends with no tool call and non-empty content, the
\* loop ends as finished at step 1: one Gateway request, no tool executed and
\* no tool turn in the history.
C5_DirectAnswerEndsAtStepOne ==
    ( /\ Len(messages) >= 3
      /\ messages[3].tool_calls = <<>>
      /\ messages[3].content # <<>> )
    => ( /\ pc = "done"
         /\ outcome = "finished"
         /\ isCompleted
         /\ step = 1
         /\ requests = 1
         /\ executed = <<>>
         /\ Len(messages) = 3 )

\* C5 witness: the direct answer "2", "+2=4" under a budget of one step.
C5_Witness ==
    /\ pc = "done"
    /\ maxSteps = 1
    /\ Len(messages) = 3
    /\ messages[3].content = <<"2", "+2=4">>
    /\ messages[3].tool_calls = <<>>

\* C6 (as claimed): for a direct answer streamed as n content fragments and a
\* completion marker, the events are the n content events (isDone:false), in
\* order, then one terminal event (isDone:true), all with step 1.
C6_DirectAnswerEvents ==
    ( /\ EndedByItself
      /\ outcome = "finished"
      /\ Len(messages) = 3
      /\ messages[3].tool_calls = <<>>
      /\ finishSeen
      /\ Len(gw.reply.content) > 0 )
    => LET n == Len(gw.reply.content) IN
          /\ Len(events) = n + 1
          /\ \A i \in 1..n :
                /\ events[i].content = gw.reply.content[i]
                /\ ~events[i].isDone
                /\ events[i].step = 1
          /\ events[n + 1].isDone
          /\ events[n + 1].step = 1

ParamsExpr22 == << [key |-> <<"expression">>, value |-> <<"2", "+", "2">>] >>
ParamsAnswer4 == << [key |-> <<"answer">>, value |-> <<"4">>] >>

RECURSIVE RequestedCalls(_)
\* the tool calls of the assistant turns of a history, in order
RequestedCalls(history) ==
    IF history = <<>> THEN <<>>
    ELSE (IF Head(history).role = "assistant" THEN Head(history).tool_calls ELSE <<>>)
         \o RequestedCalls(Tail(history))

\* the model has called math_calc({expression:"2+2"}) and then
\* finish({answer:"4"}), in one turn or in two, and no other tool, and the
\* run has ended
ScenarioB ==
    /\ EndedByItself
    /\ outcome = "finished"
    /\ Len(RequestedCalls(messages)) = 2
    /\ Len(executed) = 2
    /\ executed[1].name = "math_calc" /\ executed[1].parameters = ParamsExpr22
    /\ executed[2].name = "finish" /\ executed[2].parameters = ParamsAnswer4

IsPreDispatch(e, name) ==
    e.toolCall.name = name /\ e.toolCall.result.isNull /\ ~e.isDone
IsPostDispatch(e, name) ==
    /\ e.toolCall.name = name /\ ~e.toolCall.result.isNull /\ ~e.isDone
    /\ e.toolCall.result.success
IsFinal(e) ==
    /\ e.toolCall.name = "finish" /\ e.isDone /\ e.content = <<"4">>
    /\ ~e.toolCall.result.isNull

\* C7 (as claimed): in scenario B the tool events are exactly pre-dispatch
\* math_calc, post-dispatch math_calc with the value 4, pre-dispatch finish
\* and the terminal event {content:"4", isDone:true, toolCall.name:"finish"},
\* with no other tool event between them.
C7_ScenarioBFourEvents ==
    ScenarioB =>
        LET te == ToolEvents IN
        /\ Len(te) = 4
        /\ IsPreDispatch(te[1], "math_calc")
        /\ IsPostDispatch(te[2], "math_calc")
        /\ te[2].toolCall.result.data.result = 4
        /\ IsPreDispatch(te[3], "finish")
        /\ IsFinal(te[4])

\* C7 (amended): in scenario B the tool events are exactly pre-dispatch
\* math_calc, post-dispatch math_calc whose result.data.result is 4,
\* pre-dispatch finish, post-dispatch finish (isDone:false) and the terminal
\* event {content:"4", isDone:true, toolCall.name:"finish"}; the terminal
\* event is the last event of the stream.
C7_ScenarioBFiveEvents ==
    ScenarioB =>
        LET te == ToolEvents IN
        /\ Len(te) = 5
        /\ IsPreDispatch(te[1], "math_calc")
        /\ IsPostDispatch(te[2], "math_calc")
        /\ te[2].toolCall.result.data.result = 4
        /\ te[2].toolCall.result.data.resultType = "number"
        /\ IsPreDispatch(te[3], "finish")
        /\ IsPostDispatch(te[4], "finish")
        /\ te[4].toolCall.result.data.finished
        /\ IsFinal(te[5])
        /\ Last(events) = te[5]

\* C7 witness: scenario B in a single turn.
C7_Witness == ScenarioB /\ step = 1 /\ Len(ToolEvents) = 5

\* a tool event for unknown_tool that carries a result
IsUnknownToolResult(e) ==
    e.toolCall.present /\ e.toolCall.name = "unknown_tool" /\ ~e.toolCall.result.isNull

\* every event for unknown_tool carries the error text and is not terminal,
\* and a run that has ended went on after it: to the next request, to the
\* max-steps event when no budget was left, or to a later tool call of the
\* same turn that ended the run
C8_Events(text) ==
    \A i \in 1..Len(events) :
       IsUnknownToolResult(events[i]) =>
          /\ events[i].error = text
          /\ ~events[i].isDone
          /\ ~events[i].toolCall.result.success
          /\ EndedByItself =>
                \/ requests > events[i].step
                \/ events[i].step = maxSteps /\ outcome = "budget_exceeded"
                \/ /\ i < Len(events)
                   /\ Last(events).isDone
                   /\ Last(events).step = events[i].step
                   /\ outcome \in {"finished", "error"}

C8_Lookup ==
    ( /\ pc = "lookup"
      /\ CurrentCall.name = "unknown_tool"
      /\ ~cancelRequested /\ ~cancelRequested' )
    => ( /\ Len(events') = Len(events) + 1
         /\ IsUnknownToolResult(Last(events'))
         /\ pc' = "next_call" )

ScenarioD ==
    /\ maxSteps = 1
    /\ pc = "done"
    /\ outcome = "budget_exceeded"
    /\ Len(executed) > 0
    /\ executed[1].name # "finish"

LastAssistant(history) ==
    IF \E i \in 1..Len(history) : history[i].role = "assistant"
    THEN CHOOSE i \in 1..Len(history) :
             /\ history[i].role = "assistant"
             /\ \A j \in (i + 1)..Len(history) : history[j].role # "assistant"
    ELSE 0

\* the tool turns that answer the call of that id in the current turn
ToolTurnsFor(id) ==
    {i \in (LastAssistant(messages) + 1)..Len(messages) :
        messages[i].role = "tool" /\ messages[i].tool_call_id = id}

\* C11 (as claimed): every dispatched tool call, whether its tool succeeds,
\* throws or is not registered, has given one StepEvent that carries
\* toolCall {name, parameters, result} with a result that is not null, and
\* one tool turn in the history whose content is that result serialized and
\* whose tool_call_id is the id of the call in the assistant turn.
C11_ToolTurnAndEvent ==
    (pc \in {"next_call", "after_post"} /\ ~cancelRequested) =>
        /\ Last(events).toolCall.present
        /\ Last(events).toolCall.name = CurrentCall.name
        /\ Last(events).toolCall.parameters = parameters
        /\ ~Last(events).toolCall.result.isNull
        /\ Cardinality(ToolTurnsFor(CurrentCall.id)) = 1
        /\ Last(messages).role = "tool"
        /\ Last(messages).tool_call_id = CurrentCall.id
        /\ Last(messages).content = JSONStringify(Last(events).toolCall.result)


\* the errors of the Gateway: the request rejected, the stream failed
GatewayErrors == {"OpenAI API Error", "Stream processing failed"}

\* the last event is the final event of a finish call
EndedByFinish ==
    /\ isCompleted
    /\ events # <<>>
    /\ Last(events).isDone
    /\ Last(events).toolCall.present
    /\ Last(events).toolCall.name = "finish"

\* the last event is the event of the catch with one of the given errors
FatalEventLast(errors) ==
    /\ events # <<>>
    /\ Last(events).isDone
    /\ ~Last(events).toolCall.present
    /\ Last(events).error \in errors

EndedByError(errors) == outcome = "error" /\ FatalEventLast(errors)

\* the last turn of the history is an assistant turn without tool calls
EndedByDirectAnswer ==
    /\ isCompleted
    /\ outcome = "finished"
    /\ Last(messages).role = "assistant"
    /\ Last(messages).tool_calls = <<>>

\* the finish tool has been executed in the current step
FinishExecuted ==
    \E i \in 1..Len(executed) : executed[i].name = "finish" /\ executed[i].step = step

\* the places of the generator inside the loop, before any exit
LoopPcs == {"loop", "await_response", "stream", "chunk_rest", "assemble",
            "dispatch", "lookup", "exec", "after_post", "next_call"}

IsToolErrorEvent(e) ==
    /\ e.toolCall.present
    /\ ~e.toolCall.result.isNull
    /\ ~e.toolCall.result.success
    /\ "toolName" \in DOMAIN e.toolCall.result

\* the pre-dispatch events of step s
PreDispatchEventsOf(s) ==
    {i \in 1..Len(events) :
        /\ events[i].step = s
        /\ events[i].toolCall.present
        /\ events[i].toolCall.result.isNull}

\* the step taken when tool.execute has failed
C13_Caught ==
    ( /\ pc = "exec"
      /\ ~Execute(CurrentCall.name, parameters).ok
      /\ ~cancelRequested /\ ~cancelRequested' )
    => LET failure == [isNull |-> FALSE, success |-> FALSE,
                       error |-> Execute(CurrentCall.name, parameters).error,
                       toolName |-> CurrentCall.name, parameters |-> parameters]
       IN  /\ messages' = Append(messages,
                              [role |-> "tool", content |-> [json |-> failure],
                               tool_call_id |-> CurrentCall.id])
           /\ Len(events') = Len(events) + 1
           /\ Last(events').toolCall.present
           /\ Last(events').toolCall.name = CurrentCall.name
           /\ Last(events').toolCall.result = failure
           /\ Last(events').error = failure.error
           /\ ~Last(events').isDone
           /\ pc' = "next_call"
           /\ tcIdx' = tcIdx /\ toolCalls' = toolCalls

\* what follows a tool error event: it is not terminal; the whole turn has
\* been dispatched when the generator is back at the loop test; a run that
\* has ended went on after it
C13_GoesOn ==
    /\ \A i \in 1..Len(events) :
          IsToolErrorEvent(events[i]) =>
             /\ ~events[i].isDone
             /\ EndedByItself =>
                   \/ requests > events[i].step
                   \/ events[i].step = maxSteps /\ outcome = "budget_exceeded"
                   \/ /\ i < Len(events)
                      /\ Last(events).isDone
                      /\ Last(events).step = events[i].step
                      /\ outcome \in {"finished", "error"}
    /\ (pc = "loop" /\ step >= 1 /\ ~cancelRequested) =>
          Cardinality(PreDispatchEventsOf(step)) = Len(toolCalls)

\* C13: when the execute of a registered tool fails, the failure is caught
\* and turned into {success:false, error, toolName, parameters}, which is
\* appended to the history as the tool turn of the call and emitted as a
\* StepEvent with isDone:false; the remaining tool calls of the turn are
\* still dispatched and the loop goes on to the next step.
C13_ToolFailureFeedsBack == []C13_GoesOn /\ [][C13_Caught]_vars

\* C13 witness: math_calc has thrown at step 1, the next call of the turn has
\* been dispatched after it, and the second request has been issued.
C13_Witness ==
    /\ requests = 2
    /\ Len(events) >= 4
    /\ IsToolErrorEvent(events[2])
    /\ events[2].toolCall.name = "math_calc"
    /\ events[3].toolCall.present
    /\ events[3].toolCall.result.isNull
    /\ events[3].step = 1
    /\ Len(messages) >= 4
    /\ messages[4].role = "tool"


\* the step taken when the Gateway request or its stream fails: the generator
\* leaves the request or the stream for a place that is neither the stream
\* nor the code after it
C14_Fails ==
    ( /\ pc \in {"await_response", "stream"}
      /\ pc' \notin {"await_response", "stream", "chunk_rest", "assemble", "done"}
      /\ ~cancelRequested /\ ~cancelRequested' )
    => /\ pc' = "after_fatal"
       /\ Len(events') = Len(events) + 1
       /\ Last(events').isDone
       /\ Last(events').error \in GatewayErrors
       /\ Last(events').step = step
       /\ ~Last(events').toolCall.present
       /\ requests' = requests
       /\ messages' = messages

\* after the event of the catch the generator only returns
C14_Ends ==
    (pc = "after_fatal" \/ outcome = "error")
    => /\ pc' \in {"after_fatal", "done"}
       /\ requests' = requests
       /\ events' = events
       /\ executed' = executed

\* a run ended by a Gateway error has one terminal event, its last, and has
\* issued no request after the one that failed
C14_Ended ==
    EndedByError(GatewayErrors) =>
        /\ pc = "done"
        /\ Cardinality(TerminalEvents) = 1
        /\ requests = Last(events).step

\* C14: when the Gateway request or its update stream fails, the loop emits
\* a terminal StepEvent with the error and isDone:true, ends, and issues no
\* further Gateway request.
C14_GatewayFailureEndsTheLoop ==
    []C14_Ended /\ [][C14_Fails]_vars /\ [][C14_Ends]_vars

\* C14 witness: the stream of the second request has failed, after content
\* and a tool call in the first step, and the run has ended.
C14_Witness ==
    /\ pc = "done"
    /\ EndedByError({"Stream processing failed"})
    /\ requests = 2
    /\ Len(executed) = 1
    /\ Last(events).step = 2


\* C15 (as claimed): once the consumer has cancelled, the Gateway connection
\* is closed (no request in flight, no response stream open) and the
\* invocation settles in the terminal error state "aborted"; a tool that was
\* running at the cancellation has run to completion, and no tool execution
\* is started twice.
C15_CancelClosesGateway ==
    cancelRequested =>
        /\ ~GatewayConnectionOpen
        /\ pc = "done" => outcome = "aborted"
        /\ \A i, j \in 1..Len(executed) : i # j => executed[i] # executed[j]


\* C17 (as claimed): at the end of a turn the tool calls are assembled and
\* dispatched in ascending index order, also when the first fragment of a
\* higher index has arrived before the first fragment of a lower index.
C17_AscendingIndexOrder ==
    pc \in {"dispatch", "lookup", "exec", "after_post", "next_call"} =>
        /\ toolCalls = AssembleToolCalls(toolCallMap)
        /\ \A p, q \in 1..Len(toolCallMap) :
              p < q => toolCallMap[p].index < toolCallMap[q].index
        /\ \A p \in 1..Len(toolCalls) : toolCalls[p].id = gw.reply.calls[p].id


\* the events of step s that carry a tool call and are not terminal, in order
ToolEventsOf(s) ==
    SelectSeq(events, LAMBDA e : e.toolCall.present /\ ~e.isDone /\ e.step = s)

\* the tool executions started in step s
ExecutedIn(s) == SelectSeq(executed, LAMBDA x : x.step = s)

\* the events of the current step that carry a result of an executed tool
ResultEventsOf(s) ==
    SelectSeq(ToolEventsOf(s),
              LAMBDA e : ~e.toolCall.result.isNull /\ "toolName" \in DOMAIN e.toolCall.result)

\* the tool turns appended in the current turn
ToolTurnsOfTurn ==
    {i \in (LastAssistant(messages) + 1)..Len(messages) : messages[i].role = "tool"}

\* C18: the tool calls of one turn are executed strictly one at a time: the
\* tool events of a step alternate between the pre-dispatch event (result
\* null) of a call and the event with the result of that same call; a tool
\* runs only after its pre-dispatch event, and while it runs the result events
\* and the tool turns of all the tools started before it are there; the
\* pre-dispatch event of the next call comes only after the result event and
\* the tool turn of the call before it.
C18_OneAtATime ==
    (~cancelRequested /\ pc \in {"dispatch", "lookup", "exec", "after_post", "next_call"}) =>
        LET te  == ToolEventsOf(step)
            ran == ExecutedIn(step)
        IN  /\ \A k \in 1..Len(te) :
                  IF k % 2 = 1 THEN te[k].toolCall.result.isNull
                  ELSE /\ ~te[k].toolCall.result.isNull
                       /\ te[k].toolCall.name = te[k - 1].toolCall.name
                       /\ te[k].toolCall.parameters = te[k - 1].toolCall.parameters
            /\ pc = "exec" =>
                  /\ Len(te) % 2 = 1
                  /\ Last(te).toolCall.name = Last(ran).name
                  /\ Last(te).toolCall.parameters = Last(ran).parameters
                  /\ Len(ResultEventsOf(step)) = Len(ran) - 1
                  /\ Cardinality(ToolTurnsOfTurn) = Len(ran) - 1
            /\ pc # "exec" =>
                  /\ Len(ResultEventsOf(step)) = Len(ran)
                  /\ Cardinality(ToolTurnsOfTurn) = Len(ran)
            /\ pc \in {"dispatch", "next_call", "after_post"} => Len(te) % 2 = 0
            /\ pc = "lookup" => Len(te) % 2 = 1

\* C18 witness: the second tool of a turn is running; the first has its
\* pre-dispatch event, its result event and its tool turn.
C18_Witness ==
    /\ ~cancelRequested
    /\ pc = "exec"
    /\ tcIdx = 2
    /\ Len(ExecutedIn(step)) = 2
    /\ Len(ToolEventsOf(step)) = 3
    /\ Cardinality(ToolTurnsOfTurn) = 1


\* a content event: no tool call, not terminal
IsContentEvent(e) == ~e.toolCall.present /\ ~e.isDone

RECURSIVE ContentOf(_)
\* the concatenation of the contents of a sequence of events
ContentOf(evs) ==
    IF evs = <<>> THEN <<>> ELSE Head(evs).content \o ContentOf(Tail(evs))

\* the content events of step s, in order
ContentEventsOf(s) == SelectSeq(events, LAMBDA e : IsContentEvent(e) /\ e.step = s)

\* no content event of a step comes after a tool event of that step, and all
\* the content received in the current turn has been emitted
C19_Order ==
    /\ \A i, j \in 1..Len(events) :
          (i < j /\ events[i].step = events[j].step /\ events[i].toolCall.present)
          => ~IsContentEvent(events[j])
    /\ (~cancelRequested /\ pc \in {"stream", "chunk_rest", "assemble"}) =>
          ContentOf(ContentEventsOf(step)) = assistantContent

\* a fragment of content is emitted in the step that receives it, before the
\* rest of its chunk and any later chunk is handled
C19_Immediate ==
    (Len(assistantContent') > Len(assistantContent) /\ ~cancelRequested')
    => /\ Len(events') = Len(events) + 1
       /\ IsContentEvent(Last(events'))
       /\ Last(events').step = step
       /\ assistantContent' = assistantContent \o Last(events').content
       /\ toolCallMap' = toolCallMap
       /\ pc' = "chunk_rest"

\* C19: within one step every content StepEvent comes before any tool
\* StepEvent (pre- or post-dispatch) of that step, and each content event is
\* emitted when its fragment is received, before later updates of the stream
\* are consumed.
C19_ContentBeforeTools == []C19_Order /\ [][C19_Immediate]_vars

\* C19 witness: a step with a content event followed by the pre-dispatch and
\* the result event of a tool.
C19_Witness ==
    /\ Len(events) >= 3
    /\ IsContentEvent(events[1])
    /\ events[1].content = <<"let me compute">>
    /\ events[2].toolCall.present /\ events[2].step = 1
    /\ events[3].toolCall.present /\ events[3].step = 1


\* the finish tool has run in the current step and its result has been looked at
FinishHandled ==
    /\ FinishExecuted
    /\ pc \notin {"exec", "after_post"}
    /\ ~cancelRequested

\* the state once finish has been handled: the final event is the last event
\* and nothing of the turn was dispatched after finish
C20_Final ==
    FinishHandled =>
        /\ isCompleted
        /\ pc \in {"after_final", "done"}
        /\ Last(events).isDone
        /\ Last(events).toolCall.present
        /\ Last(events).toolCall.name = "finish"
        /\ Last(events).content = Last(executed).parameters[1].value
        /\ Last(events).step = step
        /\ Last(events).error = ""
        /\ Last(executed).name = "finish"
        /\ Cardinality(PreDispatchEventsOf(step)) = tcIdx
        /\ Cardinality(TerminalEvents) = 1
        /\ requests = step

\* once the loop is completed, no request is issued and no tool is started
C20_Stops ==
    isCompleted => /\ requests' = requests
                   /\ executed' = executed
                   /\ events' = events
                   /\ messages' = messages

\* C20: when the finish tool executes and its result indicates completion,
\* the loop emits a final event with the answer as content, isDone:true and
\* toolCall.name "finish", dispatches none of the remaining tool calls of
\* that turn, and issues no further Gateway request.
C20_FinishEndsTheTurn == []C20_Final /\ [][C20_Stops]_vars

\* C20 witness: finish was the first of two calls of the turn; the run has
\* ended and the second call has not been dispatched.
C20_Witness ==
    /\ pc = "done"
    /\ FinishHandled
    /\ Len(toolCalls) = 2
    /\ tcIdx = 1
    /\ Len(executed) = 1
    /\ outcome = "finished"


(***************************************************************************)
(* Two invocations.  createAgentChat declares messages, step and           *)
(* isCompleted inside the call (372-392), so each invocation has its own.  *)
(* The first invocation is the one modelled above, step by step; the       *)
(* second, in the variable other, runs the same loop with each await taken *)
(* as one step: the request, the whole response of a turn, one tool call.  *)
(***************************************************************************)
\* the second invocation is given a budget in 1..MaxTwoSteps
MaxTwoSteps == 1

OtherUserMessage == "what is 3+1?"

\* the turns the model may answer to the second invocation, as assembled
OtherReplies ==
    { [content |-> <<"3+1=4">>, calls |-> <<>>],
      [content |-> <<>>,
       calls |-> << [id |-> "call_x", type |-> "function", name |-> "math_calc",
                     arguments |-> Flatten(ArgsExpr22)] >>],
      [content |-> <<"done">>,
       calls |-> << [id |-> "call_y", type |-> "function", name |-> "finish",
                     arguments |-> Flatten(ArgsAnswer4)] >>] }

\* the second invocation after construction, with options {maxSteps: k}
OtherStart(k) ==
    [pc |-> "loop", maxSteps |-> EffectiveMaxSteps("", k),
     messages |-> << SystemTurn(SelectConfig("").systemPrompt),
                     UserTurn(OtherUserMessage) >>,
     sent |-> <<>>, step |-> 0, isCompleted |-> FALSE, requests |-> 0,
     toolCalls |-> <<>>, tcIdx |-> 0, events |-> <<>>]

\* a step of the second invocation with every variable in one list of the
\* service, shared by the invocations
SharedHistoryStep(o, pushed) ==
    /\ other' = o
    /\ messages' = messages \o pushed
    /\ UNCHANGED <<batchVars, speedVars, mode, optMaxSteps, maxSteps, step, isCompleted, pc,
                   assistantContent, toolCallMap, toolCalls, tcIdx, parameters,
                   chunk, finishSeen, gw, requests, sent, executed, events,
                   cancelRequested, outcome>>

\* a step of the second invocation: its locals become o and the turns pushed
\* are appended to its own messages
OtherStep(o, pushed) ==
    /\ other' = [o EXCEPT !.messages = other.messages \o pushed]
    /\ UNCHANGED <<loopVars, batchVars, speedVars>>

\* while condition true: step++ and the request with the history (403-426)
OtherLoopIterate ==
    /\ other.pc = "loop"
    /\ WhileCondition(other.step, other.maxSteps, other.isCompleted)
    /\ OtherStep([other EXCEPT !.step = @ + 1, !.requests = @ + 1,
                               !.sent = other.messages,
                               !.pc = "await_response"], <<>>)

\* while condition false: the max-steps event, the end (753-772)
OtherLoopExit ==
    /\ other.pc = "loop"
    /\ ~WhileCondition(other.step, other.maxSteps, other.isCompleted)
    /\ OtherStep([other EXCEPT
                    !.pc = "done",
                    !.events = IF MaxStepsReached(other.step, other.maxSteps,
                                                  other.isCompleted)
                               THEN Append(@, MaxStepsEvent(other.step, other.maxSteps))
                               ELSE @], <<>>)

\* the response of a turn: content event, assistant turn, direct answer (432-541, 734-750)
OtherTurn ==
    /\ other.pc = "await_response"
    /\ \E r \in OtherReplies :
          OtherStep([other EXCEPT
                       !.events = IF r.content # <<>>
                                  THEN Append(@, ContentEvent(r.content, other.step))
                                  ELSE @,
                       !.toolCalls = r.calls,
                       !.tcIdx = IF r.calls = <<>> THEN 0 ELSE 1,
                       !.isCompleted = (r.calls = <<>>),
                       !.pc = IF r.calls = <<>> THEN "done" ELSE "dispatch"],
                    << AssistantTurn(r.content, r.calls) >>)

\* one tool call: pre-dispatch, execute, tool turn, result event, finish check (545-732)
OtherDispatch ==
    /\ other.pc = "dispatch"
    /\ other.tcIdx <= Len(other.toolCalls)
    /\ LET call   == other.toolCalls[other.tcIdx]
           params == ParseToolArgs(call.arguments).value
           r      == Execute(call.name, params)
           result == IF r.ok THEN SuccessResult(call.name, params, r.data)
                     ELSE ErrorResult(call.name, params, r.error)
           done   == r.ok /\ FinishReported(call.name, r.data)
           evs    == << PreDispatchEvent(call.name, params, other.step),
                        IF r.ok
                        THEN PostDispatchEvent(call.name, params, r.data, other.step)
                        ELSE ToolErrorEvent(call.name, params, r.error, other.step) >>
                     \o (IF done
                         THEN << FinalEvent(call.name, params, r.data, other.step) >>
                         ELSE <<>>)
       IN  OtherStep([other EXCEPT
                        !.events = @ \o evs,
                        !.isCompleted = done,
                        !.tcIdx = IF done THEN @ ELSE @ + 1,
                        !.pc = IF done THEN "done" ELSE "dispatch"],
                     << ToolTurn(result, ToolCallId(call.id, other.step)) >>)

\* the for loop over the tool calls is over (744)
OtherForLoopEnds ==
    /\ other.pc = "dispatch"
    /\ other.tcIdx > Len(other.toolCalls)
    /\ OtherStep([other EXCEPT !.pc = "loop"], <<>>)

\* two invocations with default options but for maxSteps: one step for the
\* first, up to MaxTwoSteps for the second
InitTwo ==
    /\ InitLoopState
    /\ mode = ""
    /\ optMaxSteps = 1
    /\ \E k \in 1..MaxTwoSteps : other = OtherStart(k)
    /\ NoBenchmark

NextTwo ==
    \/ Next
    \/ OtherLoopIterate
    \/ OtherLoopExit
    \/ OtherTurn
    \/ OtherDispatch
    \/ OtherForLoopEnds

SpecTwo == InitTwo /\ [][NextTwo]_vars


\* the ids of the tool calls the model gives to each invocation
CallIds == {"call_a", "call_b"}
OtherCallIds == {"call_x", "call_y"}

\* every turn of the history belongs to the invocation with that user
\* message and those call ids
OwnTurnsOnly(history, user, ids) ==
    \A i \in 1..Len(history) :
       CASE history[i].role = "user" -> history[i].content = user
         [] history[i].role = "tool" -> history[i].tool_call_id \in ids
         [] history[i].role = "assistant" ->
               \A c \in 1..Len(history[i].tool_calls) : history[i].tool_calls[c].id \in ids
         [] OTHER -> i = 1

\* each history, and each history sent, holds the turns of its own invocation
\* only, and each step counter counts the requests of its own invocation
C16_Own ==
    /\ OwnTurnsOnly(messages, UserMessage, CallIds)
    /\ OwnTurnsOnly(other.messages, OtherUserMessage, OtherCallIds)
    /\ OwnTurnsOnly(other.sent, OtherUserMessage, OtherCallIds)
    /\ step = requests
    /\ other.step = other.requests
    /\ Len(other.sent) <= Len(other.messages)
    /\ other.sent = SubSeq(other.messages, 1, Len(other.sent))

\* a step of one invocation leaves the other as it is, and a step of the
\* first invocation is a step it can take when it runs alone
C16_Apart ==
    /\ other' # other => UNCHANGED loopVars
    /\ loopVars' # loopVars => (other' = other /\ Next)

DispatchPcs == {"dispatch", "lookup", "exec", "after_post", "next_call", "after_final"}

\* C22: the tool calls of a turn are assembled and dispatched only when the
\* response stream of the turn has given a finish_reason: while the generator
\* is in the for loop over the tool calls, and whenever a tool of the turn is
\* being executed, the marker has been seen.
C22_MarkerBeforeDispatch ==
    pc \in DispatchPcs => finishSeen


(***************************************************************************)
(* C23.  The history given to the Gateway.                                 *)
(***************************************************************************)
\* the assistant turn at position p of history carries tool calls and is
\* followed by exactly one tool turn per call, in call order, each with the
\* tool_call_id of its call
AnsweredInOrder(history, p) ==
    LET calls == history[p].tool_calls
        n     == Len(calls) IN
    /\ p + n <= Len(history)
    /\ \A k \in 1..n :
          /\ history[p + k].role = "tool"
          /\ history[p + k].tool_call_id = calls[k].id
    /\ p + n < Len(history) => history[p + n + 1].role # "tool"

WellFormedHistory(history) ==
    \A p \in 1..Len(history) :
        (history[p].role = "assistant" /\ history[p].tool_calls # <<>>)
            => AnsweredInOrder(history, p)

\* C23: the history given to the Gateway with every request after the first
\* is well formed: each assistant turn that carries tool calls is followed
\* by exactly one tool turn per call, in call order, each with the
\* tool_call_id of its call.
C23_WellFormedRequests ==
    requests > 1 => WellFormedHistory(sent)


(***************************************************************************)
(* C24.  The history is append-only.                                       *)
(***************************************************************************)
IsPrefix(a, b) == Len(a) <= Len(b) /\ SubSeq(b, 1, Len(a)) = a

\* the history of a run starts as [system prompt, user message]
SeedHistory == << SystemTurn(SelectConfig(mode).systemPrompt), UserTurn(UserMessage) >>

\* the history starts as the seed, the first request sends the seed, and a
\* request that is in flight was given the whole current history
C24_Sent ==
    /\ IsPrefix(SeedHistory, messages)
    /\ requests = 0 => messages = SeedHistory
    /\ requests = 1 => sent = SeedHistory
    /\ pc = "await_response" => sent = messages

\* a step only appends to the history, and a request sends a history that
\* the history of the request before it is a prefix of
C24_Appends ==
    /\ IsPrefix(messages, messages')
    /\ IsPrefix(sent, sent')
    /\ sent' # sent => sent' = messages

ConfigOfMode(m) ==
    CASE m = "simple" -> SIMPLE_AGENT_CONFIG
      [] m = "developer" -> DEVELOPER_AGENT_CONFIG
      [] OTHER -> DEFAULT_AGENT_CONFIG

\* C25: the system turn that seeds the history carries the system prompt of
\* the configuration of the selected mode, for each of the modes default,
\* simple and developer.
C25_PromptOfSelectedMode ==
    /\ messages[1].role = "system"
    /\ messages[1].content = ConfigOfMode(SelectedMode(mode)).systemPrompt


(***************************************************************************)
(* C27.  The effective step budget.                                        *)
(***************************************************************************)
\* the maxSteps a configuration may carry: those of the three agent
\* configurations, and 0 for a configuration without one
ConfigMaxSteps == {0, DEFAULT_AGENT_CONFIG.maxSteps, SIMPLE_AGENT_CONFIG.maxSteps,
                   DEVELOPER_AGENT_CONFIG.maxSteps}

MaxTestCases == 6

\* const maxConcurrent = 5
MaxConcurrent == 5

\* '请选择至少一个测试用例'
NoTestCasesError ==
    "U+8BF7 U+9009 U+62E9 U+81F3 U+5C11 U+4E00 U+4E2A U+6D4B U+8BD5 U+7528 U+4F8B"
\* '请先配置 API Key 和模型'
ConfigError == "U+8BF7 U+5148 U+914D U+7F6E API Key U+548C U+6A21 U+578B"

TestModes == {"sequential", "parallel"}
TestOutcomes == {"completed", "error"}

Min(a, b) == IF a <= b THEN a ELSE b

\* the test cases whose runSingleTest has been called and has not returned
RunningTests == {t \in DOMAIN tests : tests[t] = "running"}

\* the TokenTestResult that runSingleTest returns for test case t
TestResult(t, status) == [testCase |-> t, status |-> status]

\* onProgress(current, total, result)
ProgressCall(current, t) == [current |-> current, testCase |-> t]

\* every test case from position i on, without the limit
RestOfTestCases(i) == (i + 1)..Len(testCases)

\* testCases.slice(i, i + maxConcurrent), as positions
Slice(i) == (i + 1)..Min(i + MaxConcurrent, Len(testCases))

\* no agent loop is run
NoAgentRun ==
    /\ InitLoopState
    /\ mode = ""
    /\ optMaxSteps = 0
    /\ other = NoInvocation

\* startBatchTest (760-811): the two guards, then the batchTest object and
\* the call of runSequentialTests or runParallelTests
StartBatchTest ==
    /\ bpc = "idle"
    /\ IF Len(testCases) = 0
       THEN /\ batchError' = NoTestCasesError
            /\ bpc' = "returned"
            /\ UNCHANGED <<isBatchLoading, batchTest, tests>>
       ELSE IF ~configOk
       THEN /\ batchError' = ConfigError
            /\ bpc' = "returned"
            /\ UNCHANGED <<isBatchLoading, batchTest, tests>>
       ELSE /\ isBatchLoading' = TRUE
            /\ batchError' = ""
            /\ batchTest' = [status |-> "running", results |-> <<>>]
            /\ tests' = [t \in 1..Len(testCases) |-> "pending"]
            /\ bpc' = "loop"
    /\ UNCHANGED <<testMode, testCases, configOk, results, completedCount, caseIdx,
                   progress, loopVars, other, speedVars>>

\* runSequentialTests: runSingleTest is called for the next test case (683-687)
SequentialTestStarts ==
    /\ bpc = "loop"
    /\ testMode = "sequential"
    /\ caseIdx < Len(testCases)
    /\ tests' = [tests EXCEPT ![caseIdx + 1] = "running"]
    /\ bpc' = "await"
    /\ UNCHANGED <<testMode, testCases, configOk, isBatchLoading, batchError,
                   batchTest, results, completedCount, caseIdx, progress,
                   loopVars, other, speedVars>>

\* a sequential run that stops at the first test that ends in error
SequentialTestEndsStopsOnError ==
    /\ bpc = "await"
    /\ testMode = "sequential"
    /\ \E status \in TestOutcomes :
          /\ tests' = [tests EXCEPT ![caseIdx + 1] = status]
          /\ results' = Append(results, TestResult(caseIdx + 1, status))
          /\ caseIdx' = IF status = "error" THEN Len(testCases) ELSE caseIdx + 1
    /\ progress' = Append(progress, ProgressCall(caseIdx + 1, caseIdx + 1))
    /\ bpc' = "loop"
    /\ UNCHANGED <<testMode, testCases, configOk, isBatchLoading, batchError,
                   batchTest, completedCount, loopVars, other, speedVars>>

\* runSequentialTests: runSingleTest returns; the result is pushed and
\* onProgress(i + 1, ...) is called (687-698)
SequentialTestEnds ==
    /\ bpc = "await"
    /\ testMode = "sequential"
    /\ \E status \in TestOutcomes :
          /\ tests' = [tests EXCEPT ![caseIdx + 1] = status]
          /\ results' = Append(results, TestResult(caseIdx + 1, status))
    /\ progress' = Append(progress, ProgressCall(caseIdx + 1, caseIdx + 1))
    /\ caseIdx' = caseIdx + 1
    /\ bpc' = "loop"
    /\ UNCHANGED <<testMode, testCases, configOk, isBatchLoading, batchError,
                   batchTest, completedCount, loopVars, other, speedVars>>

\* runParallelTests: runSingleTest is called for every test case of the next
\* batch, then Promise.all is awaited (730-744)
ParallelBatchStarts ==
    /\ bpc = "loop"
    /\ testMode = "parallel"
    /\ caseIdx < Len(testCases)
    /\ tests' = [t \in DOMAIN tests |->
                    IF t \in Slice(caseIdx) THEN "running" ELSE tests[t]]
    /\ bpc' = "await"
    /\ UNCHANGED <<testMode, testCases, configOk, isBatchLoading, batchError,
                   batchTest, results, completedCount, caseIdx, progress,
                   loopVars, other, speedVars>>

\* runParallelTests: the runSingleTest of one test case of the batch returns;
\* completedCount++ and onProgress(completedCount, ...) (734-741)
ParallelTestEnds ==
    /\ bpc = "await"
    /\ testMode = "parallel"
    /\ \E t \in RunningTests, status \in TestOutcomes :
          /\ tests' = [tests EXCEPT ![t] = status]
          /\ progress' = Append(progress, ProgressCall(completedCount + 1, t))
    /\ completedCount' = completedCount + 1
    /\ UNCHANGED <<testMode, testCases, configOk, isBatchLoading, batchError,
                   batchTest, bpc, results, caseIdx, loopVars, other, speedVars>>

\* runParallelTests: Promise.all of the batch resolves with the results in
\* the order of the batch; results.push(...batchResults); i += maxConcurrent
\* (730, 744-745)
ParallelBatchEnds ==
    /\ bpc = "await"
    /\ testMode = "parallel"
    /\ RunningTests = {}
    /\ results' = results \o
                    [k \in 1..Cardinality(Slice(caseIdx)) |->
                        TestResult(caseIdx + k, tests[caseIdx + k])]
    /\ caseIdx' = caseIdx + MaxConcurrent
    /\ bpc' = "loop"
    /\ UNCHANGED <<testMode, testCases, configOk, isBatchLoading, batchError,
                   batchTest, tests, completedCount, progress, loopVars, other,
                   speedVars>>

\* the for loop is over: the results are returned, and startBatchTest sets
\* the status, the results and the summary of batchTest, and in its finally
\* isBatchLoading (700, 748, 812-874)
BatchTestsReturn ==
    /\ bpc = "loop"
    /\ caseIdx >= Len(testCases)
    /\ batchTest' = [status |-> "completed", results |-> results]
    /\ isBatchLoading' = FALSE
    /\ bpc' = "done"
    /\ UNCHANGED <<testMode, testCases, configOk, batchError, tests, results,
                   completedCount, caseIdx, progress, loopVars, other, speedVars>>

\* cancelBatchTest (880-886), called while startBatchTest awaits its tests:
\* the code between two awaits runs without interruption
CancelBatchTest ==
    /\ bpc = "await"
    /\ batchTest.status = "running"
    /\ batchTest' = [batchTest EXCEPT !.status = "cancelled"]
    /\ isBatchLoading' = FALSE
    /\ UNCHANGED <<testMode, testCases, configOk, batchError, bpc, tests, results,
                   completedCount, caseIdx, progress, loopVars, other, speedVars>>

\* useTokenSpeedTest(), and the arguments of the one startBatchTest call
InitBatch ==
    /\ NoAgentRun
    /\ SpeedIdle
    /\ BatchIdle
    /\ testMode \in TestModes
    /\ testCases \in {[k \in 1..n |-> k] : n \in 0..MaxTestCases}
    /\ configOk \in BOOLEAN

NextBatch ==
    \/ StartBatchTest
    \/ SequentialTestStarts
    \/ SequentialTestEnds
    \/ ParallelBatchStarts
    \/ ParallelTestEnds
    \/ ParallelBatchEnds
    \/ BatchTestsReturn
    \/ CancelBatchTest

SpecBatch == InitBatch /\ [][NextBatch]_vars

(***************************************************************************)
(* C26.  The limit of parallel test runs.                                  *)
(***************************************************************************)
\* C26: in parallel mode no more than 5 (maxConcurrent) test runs are in
\* flight at the same time, whatever the number of test cases.
C26_AtMostFiveInFlight ==
    testMode = "parallel" => Cardinality(RunningTests) <= MaxConcurrent

\* more test cases than the limit, and as many test runs in flight as the limit
C26_Witness ==
    /\ testMode = "parallel"
    /\ Len(testCases) > MaxConcurrent
    /\ Cardinality(RunningTests) = MaxConcurrent


(***************************************************************************)
(* C28.  A cancelled batch.                                                *)
(***************************************************************************)
\* C28: once cancelBatchTest has set the status of the running batch to
\* 'cancelled', no later step changes the status: the tests of the batch
\* that finish afterwards do not make startBatchTest overwrite it.
C28_CancelledStaysCancelled ==
    [][batchTest.status = "cancelled" => batchTest'.status = "cancelled"]_vars

(***************************************************************************)
(* C29.  The results and the progress of a batch.                          *)
(***************************************************************************)
\* C29: the results are in the order of the test cases, one per test case
\* that has been taken so far; onProgress has been called with the counts
\* 1, 2, 3, ... in this order, each once and each for another test case;
\* when runSequentialTests or runParallelTests has returned, there is
\* exactly one result and one onProgress call per test case, and every test
\* case has been run, those after a test that ended in error included.
C29_OneResultPerTestCase ==
    /\ \A k \in 1..Len(results) :
          results[k].testCase = k /\ results[k].status = tests[k]
    /\ Len(results) <= Len(testCases)
    /\ \A k \in 1..Len(progress) : progress[k].current = k
    /\ \A j, k \in 1..Len(progress) :
          j # k => progress[j].testCase # progress[k].testCase
    /\ bpc = "done" =>
          /\ Len(results) = Len(testCases)
          /\ Len(progress) = Len(testCases)
          /\ \A t \in DOMAIN tests : tests[t] \in TestOutcomes

\* a parallel run of more than one batch has returned: the first test case
\* ended in error, it was not the first to end, and the last one completed
C29_Witness ==
    /\ bpc = "done"
    /\ testMode = "parallel"
    /\ Len(testCases) > MaxConcurrent
    /\ tests[1] = "error"
    /\ progress[1].testCase # 1
    /\ tests[Len(testCases)] = "completed"


(***************************************************************************)
(* The single tests of the benchmark composable: startTokenSpeedTest       *)
(* (useTokenSpeedTest.ts 156-341).                                         *)
(*                                                                         *)
(* spc is the place of the startTokenSpeedTest call that got past its      *)
(* guards:                                                                 *)
(*   "idle"       there is none                                            *)
(*   "starting"   awaiting Effect.runPromise, the request not yet made     *)
(*   "streaming"  awaiting Effect.runPromise, the request made             *)
(* testResults holds the status of each entry, the newest first; the entry *)
(* of the running call is newTest.  lastCall is what the last call of      *)
(* startTokenSpeedTest did: "blank" and "busy" for the return at 161-163,  *)
(* "rejected" for the return at 166-169, "started" past them.              *)
(***************************************************************************)
\* no more than MaxSpeedTests calls of startTokenSpeedTest get past the guards
MaxSpeedTests == 3

\* err.message of the failure of Effect.runPromise
SpeedTestError == "OpenAI API Error"

\* a guard that does not look at isLoading
GuardWithoutIsLoading(blank, loading) == blank

\* !message.trim() || isLoading.value
SpeedTestGuard(blank, loading) == blank \/ loading

\* startTokenSpeedTest is called (156-203): blank is !message.trim(), ok is
\* config.apiKey && config.model
StartTokenSpeedTest ==
    \E blank \in BOOLEAN, ok \in BOOLEAN :
       IF SpeedTestGuard(blank, isLoading)
       THEN /\ lastCall' = IF isLoading THEN "busy" ELSE "blank"
            /\ UNCHANGED <<isLoading, error, testResults, spc, apiRequests,
                           batchVars, loopVars, other>>
       ELSE IF ~ok
       THEN /\ error' = ConfigError
            /\ lastCall' = "rejected"
            /\ UNCHANGED <<isLoading, testResults, spc, apiRequests,
                           batchVars, loopVars, other>>
       ELSE /\ Len(testResults) < MaxSpeedTests
            /\ isLoading' = TRUE
            /\ error' = ""
            /\ testResults' = <<"running">> \o testResults
            /\ spc' = "starting"
            /\ lastCall' = "started"
            /\ UNCHANGED <<apiRequests, batchVars, loopVars, other>>

\* the program of the test makes its request (215-220)
SpeedRequestSent ==
    /\ spc = "starting"
    /\ apiRequests' = apiRequests + 1
    /\ spc' = "streaming"
    /\ UNCHANGED <<isLoading, error, testResults, lastCall, batchVars, loopVars, other>>

\* the stream is over: the test is completed; finally (305-329, 335-340)
SpeedTestCompletes ==
    /\ spc = "streaming"
    /\ testResults' = [testResults EXCEPT ![1] = "completed"]
    /\ isLoading' = FALSE
    /\ spc' = "idle"
    /\ UNCHANGED <<error, apiRequests, lastCall, batchVars, loopVars, other>>

\* Effect.runPromise rejects, before or after the request: catch, finally
\* (330-340)
SpeedTestFails ==
    /\ spc \in {"starting", "streaming"}
    /\ testResults' = [testResults EXCEPT ![1] = "error"]
    /\ error' = SpeedTestError
    /\ isLoading' = FALSE
    /\ spc' = "idle"
    /\ UNCHANGED <<apiRequests, lastCall, batchVars, loopVars, other>>

\* useTokenSpeedTest()
InitSpeed == NoAgentRun /\ NoBenchmark

NextSpeed ==
    \/ StartTokenSpeedTest
    \/ SpeedRequestSent
    \/ SpeedTestCompletes
    \/ SpeedTestFails

SpecSpeed == InitSpeed /\ [][NextSpeed]_vars

(***************************************************************************)
(* C30.  startTokenSpeedTest is mutually exclusive.                        *)
(***************************************************************************)
\* isLoading is true exactly while a test is running, and at most one is:
\* the newest entry alone may have the status running, and no more requests
\* have been made than there are entries
C30_OneAtATime ==
    /\ isLoading <=> (testResults # <<>> /\ testResults[1] = "running")
    /\ \A k \in 2..Len(testResults) : testResults[k] # "running"
    /\ apiRequests <= Len(testResults)

\* a call made while isLoading is true returns at the guard and changes
\* nothing; when the running test ends, completed or failed, isLoading is
\* false
C30_CallsAndEnds ==
    /\ (isLoading /\ lastCall' # lastCall) =>
          /\ lastCall' = "busy"
          /\ UNCHANGED <<isLoading, error, testResults, spc, apiRequests>>
    /\ (spc # "idle" /\ spc' = "idle") =>
          /\ testResults'[1] \in TestOutcomes
          /\ ~isLoading'

\* C30: while isLoading is true a call of startTokenSpeedTest returns without
\* a request and without a new result entry, so that at most one test runs;
\* isLoading is false again when the running test has ended, completed or
\* failed.
C30_MutuallyExclusive == []C30_OneAtATime /\ [][C30_CallsAndEnds]_vars

\* a call was made while the first test was running and returned at the
\* guard; the test has failed since, and isLoading is false
C30_Witness ==
    /\ lastCall = "busy"
    /\ Len(testResults) = 1
    /\ testResults[1] = "error"
    /\ apiRequests = 1
    /\ ~isLoading

====
